---- MODULE Spec2Model ----
(***************************************************************************)
(* Model of the green-agentic-rag job orchestration engine:                *)
(*   backend/src/api/main.py          submission, background task, polling *)
(*   backend/src/core/orchestrator.py the LangGraph nodes and edges        *)
(*   backend/src/core/scheduler.py    the carbon cost report               *)
(* One job task runs the graph; a poller reads JOB_STATUSES concurrently.  *)
(* Progress values are kept in thousandths of a percent, costs in          *)
(* thousandths of a gram, so that the arithmetic stays in the integers.    *)
(***************************************************************************)
EXTENDS Integers, Sequences, FiniteSets, TLC

\* ---- bounds ----
MaxUnits == 2
MaxRoundsCounted == 2
MaxCostUnits == 10
MaxPoolUnits == 9
MaxRaceUnits == 3

\* ---- program constants ----
RecursionLimit == 25

job_id == "job"
JobIds == {job_id}
Modes == {"balanced", "eco", "Eco"}
Chunks == 1..MaxUnits

Pct(n) == n * 1000

Msg(m, k) == [m |-> m, k |-> k]

NoEntry == [status |-> "absent"]
NoResult == [has |-> FALSE]
NoResp == [kind |-> "none"]
EmptySummary == [kind |-> "empty"]
EmptyReport == [kind |-> "empty"]

Snapshot(s, p, m, r) == [status |-> s, progress |-> p, message |-> m, result |-> r]

Light(c) == [u |-> c, t |-> "light"]
Medium(c) == [u |-> c, t |-> "medium"]

VARIABLES
    pc,               \* position of the job's background task
    job_mode,         \* AgentState.job_mode
    file_exists,      \* the uploaded temporary file is on disk
    JOB_STATUSES,     \* orchestrator.JOB_STATUSES
    chunks,           \* AgentState.chunks: the units are 1..chunks
    total_chunks,     \* AgentState.total_chunks
    summaries,        \* AgentState.summaries
    failed_chunks,    \* AgentState.failed_chunks
    chunks_escalated, \* AgentState.chunks_escalated
    final_summary,    \* AgentState.final_summary
    carbon_report,    \* AgentState.carbon_report
    acc,              \* the node's local list (summaries / passed_summaries / escalated_summaries)
    failed,           \* check_accuracy's local failed_chunks
    idx,              \* check_accuracy's loop index i; as_completed's index in the map pass
    pending,          \* futures submitted to the pool and not yet yielded by as_completed
    steps,            \* graph super-steps executed by agentic_graph.invoke
    err,              \* the exception in flight towards run_orchestrator_job's handler
    resp,             \* the response of the poll served in the last step
    invoked,          \* history: the nodes and collaborators that have run
    escalationRounds, \* history: per unit, the number of medium-tier submissions
    firstRejected,    \* history: the units rejected on the first AccuracyGate pass
    faulty,           \* environment: the summarizer and compiler backends may fail in this run
    checker_loaded,   \* models_registry holds the checker model and tokenizer
    checker_model,    \* the NLI model: its prediction for the (unit, summary) pairs followed
    compile_log,      \* the outcomes of the Groq calls of run_large_model_compile so far
    last_check,       \* how run_accuracy_check produced its last answer
    documents,        \* the rows of the documents table (storage.DocumentModel)
    running,          \* the futures a pool thread is executing (followed in PoolSpec)
    model_usage_chars, \* AgentState.model_usage_chars (followed in PoolSpec and RaceSpec)
    content,          \* len(chunk.content) of every unit (followed in PoolSpec and RaceSpec)
    thread            \* per pool thread, where its summarizer call is (followed in RaceSpec)

vars == <<pc, job_mode, file_exists, JOB_STATUSES, chunks, total_chunks, summaries,
          failed_chunks, chunks_escalated, final_summary, carbon_report, acc, failed,
          idx, pending, steps, err, resp, invoked, escalationRounds, firstRejected,
          faulty, checker_loaded, checker_model, compile_log, last_check, documents, running,
          model_usage_chars, content, thread>>

runstate == <<chunks, total_chunks, summaries, failed_chunks, chunks_escalated,
              final_summary, carbon_report>>
locals == <<acc, failed, idx, pending>>
history == <<escalationRounds, firstRejected>>
env == <<faulty, checker_loaded, checker_model>>
calls == <<compile_log, last_check>>
pool == <<running, model_usage_chars, content, thread>>

\* The job specifications follow a parallel stage by its futures only: the pool's
\* threads and the usage counters they update are left open there (calculate_carbon
\* draws the counters freely), and PoolSpec follows them thread by thread.
Untracked == [kind |-> "untracked"]

snap == JOB_STATUSES[job_id]

\* the state before submission, whatever the environment
Start ==
    /\ pc = "idle"
    /\ job_mode = "balanced"
    /\ file_exists = FALSE
    /\ JOB_STATUSES = [j \in JobIds |-> NoEntry]
    /\ chunks = 0
    /\ total_chunks = 0
    /\ summaries = <<>>
    /\ failed_chunks = <<>>
    /\ chunks_escalated = 0
    /\ final_summary = EmptySummary
    /\ carbon_report = EmptyReport
    /\ acc = <<>>
    /\ failed = <<>>
    /\ idx = 0
    /\ pending = {}
    /\ steps = 0
    /\ err = Msg("none", 0)
    /\ resp = NoResp
    /\ invoked = {}
    /\ escalationRounds = [c \in Chunks |-> 0]
    /\ firstRejected = {}
    /\ compile_log = <<>>
    /\ last_check = "none"
    /\ documents = {}
    /\ running = {}
    /\ model_usage_chars = Untracked
    /\ content = <<>>
    /\ thread = <<>>

\* ---- helpers translated from the source ----

Min(a, b) == IF a < b THEN a ELSE b

SeqToSet(s) == {s[k] : k \in 1..Len(s)}

\* main.py:135
InitialSnapshot == Snapshot("processing", Pct(5), Msg("Job initialized", 0), NoResult)

\* orchestrator.py:66-71
StartSnapshot == Snapshot("processing", Pct(5), Msg("Starting job", 0), NoResult)

\* main.py:163-174
FinalSnapshot(summary, report) ==
    Snapshot("complete", Pct(100), Msg("Job complete. Results are ready.", 0),
             [has |-> TRUE, final_summary |-> summary, carbon_data |-> report])

ErrorSnapshotUnmarked(e) == Snapshot("processing", Pct(100), e, NoResult)

\* main.py:181
ErrorSnapshot(e) == Snapshot("error", Pct(100), e, NoResult)

\* orchestrator.py:129
MapProgress(i, n) == Pct(25) + (i * Pct(30)) \div n

\* orchestrator.py:164
GateProgress(i, n) == Pct(55) + (i * Pct(15)) \div n

\* str.lower() on the submitted modes
lower(mode) == IF mode = "Eco" THEN "eco" ELSE mode

route_start_job_case_sensitive(mode) == IF mode = "eco" THEN "router_p" ELSE "triage_p"

\* orchestrator.py:380-388
route_start_job(mode) == IF lower(mode) = "eco" THEN "router_p" ELSE "triage_p"

TriageNeverFails(n) == FALSE

\* orchestrator.py:89: "if not chunks: raise ValueError"
TriageFails(n) == n = 0

should_rerun_inverted(fc) == IF Len(fc) > 0 THEN "reduce_p" ELSE "esc_p"

\* orchestrator.py:176-183
should_rerun(fc) == IF Len(fc) > 0 THEN "esc_p" ELSE "reduce_p"

\* what the NLI model does on one call: unavailable (not loaded), an entailment
\* prediction, another prediction, or an exception (models.py:264-287)
CheckerOutcomes(loaded) ==
    IF loaded THEN {"entailment", "other", "error"} ELSE {"unavailable"}

run_accuracy_check_strict(outcome) == outcome = "entailment"

\* models.py:259-287: True when unavailable, prediction == 2, True on an exception
run_accuracy_check(outcome) == outcome # "other"

\* whether a backend call succeeds is an input; it always does in a healthy run
CallOutcomes(f) == IF f THEN {TRUE, FALSE} ELSE {TRUE}

\* "Summary generation failed.": the sentinel both tiers return for a failed call
SummaryFailed == [u |-> 0, t |-> "failed"]

\* an exception that leaves the worker: future.result() raises it in the node
WorkerRaised == [u |-> 0, t |-> "raised"]

\* the summaries a stage can hand to the gate, and the (chunk, summary) pairs that
\* check_accuracy can pass to run_accuracy_check (orchestrator.py:154-156)
Outputs == {Light(c) : c \in Chunks} \cup {Medium(c) : c \in Chunks} \cup {SummaryFailed}
Pairs == Chunks \X Outputs

\* a checker of which no prediction is followed: what it answers is an input of
\* every call
AnyChecker == <<>>

\* the checkers that give every pair one prediction: the model is evaluated without
\* sampling (models.py:275-283), so its answer depends on the pair alone
PairCheckers == [Pairs -> {"entailment", "other"}]

\* what run_accuracy_check's model can do on a call with the pair p
Predictions(model, loaded, p) ==
    IF p \in DOMAIN model THEN {model[p]} ELSE CheckerOutcomes(loaded)

run_light_summarizer_uncaught(c, ok) == IF ok THEN Light(c) ELSE WorkerRaised

\* models.py:39-69: the pipeline call is wrapped in try/except
run_light_summarizer(c, ok) == IF ok THEN Light(c) ELSE SummaryFailed

\* models.py:85-118: the chat call is wrapped in try/except
run_medium_summarizer(c, ok) == IF ok THEN Medium(c) ELSE SummaryFailed

\* orchestrator.py:125-126: summaries.append(future.result()), in as_completed order
CollectLight(s, summary) == Append(s, summary)

CollectEscalatedDropped(s, summary) == s

\* orchestrator.py:205-206: escalated_summaries.append(future.result()), in as_completed order
CollectEscalated(s, summary) == Append(s, summary)

EscalationFutures_everyUnit(fc) == 1..chunks

\* orchestrator.py:197-202: one future per chunk of state["failed_chunks"]
EscalationFutures(fc) == SeqToSet(fc)

EscalatedFailedChunks_kept(fc) == fc

\* orchestrator.py:210: the node returns "failed_chunks": []
EscalatedFailedChunks(fc) == <<>>

\* orchestrator.py:172
ChunksEscalated(fc) == Len(fc)

\* scheduler.py:12-35, in thousandths of a gram
CostTriageHiRes == 50
CostLight == 5
CostMedium == 50
CostLarge == 500
CostCheck == 5
BASELINE_COST_PER_CHUNK == CostTriageHiRes + CostLarge

\* main.py:149
NoUsage == [light |-> 0, medium |-> 0, large |-> 0]

\* the values AgentState.model_usage_chars may hold when the report is computed
UsageChars == [light : {0, 1000}, medium : {0, 1000}, large : {0, 1000}]

Efficiency_nonneg_guard(saved, baseline) ==
    IF baseline >= 0 THEN [num |-> saved * 100, den |-> baseline] ELSE [num |-> 0, den |-> 1]

\* scheduler.py:106-110, as the exact fraction num/den
Efficiency(saved, baseline) ==
    IF baseline > 0 THEN [num |-> saved * 100, den |-> baseline] ELSE [num |-> 0, den |-> 1]

calculate_carbon_savings_from_usage(total, escalated, usage) ==
    LET baseline == BASELINE_COST_PER_CHUNK * total
        actual == (CostTriageHiRes + CostCheck) * total + total * CostLight
                  + usage.medium + CostLarge * 1
    IN [kind |-> "savings",
        carbon_saved_grams |-> baseline - actual,
        baseline_cost_gco2e |-> baseline,
        actual_cost_gco2e |-> actual,
        efficiency_percent |-> Efficiency(baseline - actual, baseline),
        total_chunks |-> total,
        chunks_escalated |-> escalated]

\* scheduler.py:56-128; usage is state["model_usage_chars"], read at line 65
calculate_carbon_savings(total, escalated, usage) ==
    LET baseline == BASELINE_COST_PER_CHUNK * total
        actual == (CostTriageHiRes + CostCheck) * total + total * CostLight
                  + escalated * CostMedium + CostLarge * 1
    IN [kind |-> "savings",
        carbon_saved_grams |-> baseline - actual,
        baseline_cost_gco2e |-> baseline,
        actual_cost_gco2e |-> actual,
        efficiency_percent |-> Efficiency(baseline - actual, baseline),
        total_chunks |-> total,
        chunks_escalated |-> escalated]

workflow_reentrant(node) ==
    CASE node = "triage_document" -> "map_p"
      [] node = "map_summarize_chunks" -> "check_p"
      [] node = "map_escalate_chunks" -> "check_p"
      [] node = "reduce_compile_summary" -> "store_m"
      [] node = "store_for_rag" -> "carbon_p"
      [] node = "calculate_carbon" -> "reduce_p"
      [] node = "run_carbon_router" -> "END"

\* orchestrator.py:420-440: the unconditional edges of the graph
workflow(node) ==
    CASE node = "triage_document" -> "map_p"
      [] node = "map_summarize_chunks" -> "check_p"
      [] node = "map_escalate_chunks" -> "check_p"
      [] node = "reduce_compile_summary" -> "store_m"
      [] node = "store_for_rag" -> "carbon_p"
      [] node = "calculate_carbon" -> "END"
      [] node = "run_carbon_router" -> "END"

\* langgraph: invoke() raises GraphRecursionError when the graph has not reached END
\* after RecursionLimit super-steps (main.py:154 passes no config, so the default holds)
OutOfSteps(n, next) == next # "END" /\ n >= RecursionLimit

\* ---- the documents table (storage.py) ----

ZeroPercent == [num |-> 0, den |-> 1]

\* storage.py:272-273: carbon_meta = {} and the defaults of carbon_meta.get
EmptyMeta ==
    [carbon_saved_grams |-> 0, processing_time_seconds |-> 0, total_chunks |-> 0,
     efficiency_percent |-> ZeroPercent]

\* orchestrator.py:272-277: the report is passed as carbon_meta; it has no
\* processing_time_seconds, so the default is stored
CarbonMeta(report) ==
    [carbon_saved_grams |-> report.carbon_saved_grams, processing_time_seconds |-> 0,
     total_chunks |-> report.total_chunks, efficiency_percent |-> report.efficiency_percent]

\* the figures of one routing analysis (carbon_router.analyze_pdf_carbon_impact):
\* the recommended server's carbon and time, and the baseline of orchestrator.py:300-305
RoutingResult == [carbon_grams |-> 2, baseline_carbon |-> 3, processing_time_seconds |-> 1]

\* orchestrator.py:307-311 and 327-332: carbon_meta_for_db
RouterMeta ==
    LET saved == RoutingResult.baseline_carbon - RoutingResult.carbon_grams IN
    [carbon_saved_grams |-> IF saved > 0 THEN saved ELSE 0,
     processing_time_seconds |-> RoutingResult.processing_time_seconds,
     total_chunks |-> 1,
     efficiency_percent |-> Efficiency(saved, RoutingResult.baseline_carbon)]

\* storage.py:287-294: DocumentModel(id = document_id, ...)
DocumentModel(id, summary, meta) ==
    [id |-> id, summary |-> summary,
     carbon_saved_grams |-> meta.carbon_saved_grams,
     processing_time_seconds |-> meta.processing_time_seconds,
     total_chunks |-> meta.total_chunks,
     efficiency_percent |-> meta.efficiency_percent]

\* storage.py:278: db.get(DocumentModel, document_id)
db_get(table, id) == {r \in table : r.id = id}

store_document_data_insert_only(table, id, summary, meta, ok) ==
    IF ~ok THEN table ELSE table \cup {DocumentModel(id, summary, meta)}

\* storage.py:265-313: update the row of the job when there is one, insert it otherwise;
\* a database exception is logged and swallowed (ok = FALSE). The job specifications
\* run with a database that commits; StoreSpec follows the calls that fail. The chunk
\* rows written by store_chunks (storage.py:303-311) are another table and are left out.
store_document_data(table, id, summary, meta, ok) ==
    LET doc == db_get(table, id) IN
    IF ~ok THEN table
    ELSE IF doc # {}
    THEN (table \ doc) \cup {DocumentModel(r.id, summary, meta) : r \in doc}
    ELSE table \cup {DocumentModel(id, summary, meta)}

\* ---- initial states of a job ----

\* the backends answer every call; the checker model may have failed to load at startup
Init ==
    /\ Start
    /\ faulty = FALSE
    /\ checker_loaded \in BOOLEAN
    /\ checker_model = AnyChecker

\* the summarizer and compiler backends may fail
InitFaulty ==
    /\ Start
    /\ faulty = TRUE
    /\ checker_loaded \in BOOLEAN
    /\ checker_model = AnyChecker

\* ---- writes to JOB_STATUSES[job_id] ----

SetField(f, v) == JOB_STATUSES' = [JOB_STATUSES EXCEPT ![job_id][f] = v]

SetSnapshot_every_job(s) == JOB_STATUSES' = [j \in DOMAIN JOB_STATUSES |-> s]

SetSnapshot(s) == JOB_STATUSES' = [JOB_STATUSES EXCEPT ![job_id] = s]

\* a node returned: the graph counts the super-step and moves to the next node
Advance(next) ==
    /\ steps' = steps + 1
    /\ IF OutOfSteps(steps + 1, next)
       THEN /\ pc' = "except"
            /\ err' = Msg("Recursion limit reached", 0)
       ELSE /\ pc' = (IF next = "END" THEN "finish" ELSE next)
            /\ err' = err

Raise_swallowed(e) ==
    /\ pc' = "finish"
    /\ err' = e
    /\ steps' = steps

\* a node raised: the exception leaves invoke() and reaches main.py:179
Raise(e) ==
    /\ pc' = "except"
    /\ err' = e
    /\ steps' = steps

Stay(next) ==
    /\ pc' = next
    /\ UNCHANGED <<steps, err>>

Enter(node) == invoked' = invoked \cup {node}

\* ---- submission (main.py:191-213) and the background task (main.py:129-181) ----

\* summarize_document: saves the upload, queues the task, returns the job id
Submit(mode) ==
    /\ pc = "idle"
    /\ job_mode' = mode
    /\ file_exists' = TRUE
    /\ Stay("queued")
    /\ resp' = NoResp
    /\ UNCHANGED <<pool, documents, env, calls>>
    /\ UNCHANGED <<JOB_STATUSES, runstate, locals, invoked, history>>

\* run_orchestrator_job, main.py:135
RunJobInit ==
    /\ pc = "queued"
    /\ SetSnapshot(InitialSnapshot)
    /\ Stay("start_job")
    /\ resp' = NoResp
    /\ UNCHANGED <<pool, documents, env, calls>>
    /\ UNCHANGED <<job_mode, file_exists, runstate, locals, invoked, history>>

\* a step of a node that only writes one field of the snapshot
WriteStep(from, f, v, to) ==
    /\ pc = from
    /\ SetField(f, v)
    /\ Stay(to)
    /\ resp' = NoResp
    /\ UNCHANGED <<pool, documents, env, calls>>
    /\ UNCHANGED <<job_mode, file_exists, runstate, locals, history>>

\* ---- the graph nodes (orchestrator.py) ----

start_job ==
    /\ pc = "start_job"
    /\ SetSnapshot(StartSnapshot)
    /\ Enter("start_job")
    /\ Advance(route_start_job(job_mode))
    /\ resp' = NoResp
    /\ UNCHANGED <<pool, documents, env, calls>>
    /\ UNCHANGED <<job_mode, file_exists, runstate, locals, history>>

TriageP == WriteStep("triage_p", "progress", Pct(15), "triage_m") /\ Enter("triage_document")

TriageM ==
    /\ WriteStep("triage_m", "message", Msg("Step 1/4: Triage", 0), "triage_body")
    /\ UNCHANGED invoked

\* triage.triage_document returns any number of chunks, none on a parse failure
TriageBody ==
    /\ pc = "triage_body"
    /\ \E n \in 0..MaxUnits :
         IF TriageFails(n)
         THEN /\ Raise(Msg("Triage returned no chunks. Cannot proceed.", 0))
              /\ UNCHANGED <<chunks, total_chunks>>
         ELSE /\ chunks' = n
              /\ total_chunks' = n
              /\ Advance(workflow("triage_document"))
    /\ Enter("Triage")
    /\ resp' = NoResp
    /\ UNCHANGED <<pool, documents, env, calls>>
    /\ UNCHANGED <<job_mode, file_exists, JOB_STATUSES, summaries, failed_chunks,
                   chunks_escalated, final_summary, carbon_report, locals, history>>

MapP == WriteStep("map_p", "progress", Pct(25), "map_m") /\ Enter("map_summarize_chunks")

\* message write, then every chunk is submitted to the pool (orchestrator.py:108-121)
MapM ==
    /\ pc = "map_m"
    /\ SetField("message", Msg("Step 2/4: Light", 0))
    /\ acc' = <<>>
    /\ idx' = 0
    /\ pending' = 1..chunks
    /\ Stay("map_collect")
    /\ resp' = NoResp
    /\ UNCHANGED <<pool, documents, env, calls>>
    /\ UNCHANGED <<job_mode, file_exists, runstate, failed, invoked, history>>

\* as_completed yields the future of any unfinished chunk (orchestrator.py:124-130)
MapCollect ==
    /\ pc = "map_collect"
    /\ \E c \in pending, ok \in CallOutcomes(faulty) :
         LET summary == run_light_summarizer(c, ok) IN
         /\ pending' = pending \ {c}
         /\ IF summary = WorkerRaised
            THEN /\ Raise(Msg("Summarizer exception", 0))
                 /\ UNCHANGED <<acc, idx, JOB_STATUSES>>
            ELSE /\ acc' = CollectLight(acc, summary)
                 /\ idx' = idx + 1
                 /\ SetField("progress", MapProgress(idx + 1, total_chunks))
                 /\ Stay("map_collect_m")
    /\ resp' = NoResp
    /\ UNCHANGED <<pool, documents, env, calls>>
    /\ UNCHANGED <<job_mode, file_exists, runstate, failed, invoked, history>>

\* orchestrator.py:131, and the node's return once the pool is drained (135)
MapCollectM ==
    /\ pc = "map_collect_m"
    /\ SetField("message", Msg("Step 2/4: Light done", idx))
    /\ IF pending = {}
       THEN /\ summaries' = acc
            /\ acc' = <<>>
            /\ idx' = 0
            /\ Advance(workflow("map_summarize_chunks"))
       ELSE /\ UNCHANGED <<summaries, acc, idx>>
            /\ Stay("map_collect")
    /\ resp' = NoResp
    /\ UNCHANGED <<pool, documents, env, calls>>
    /\ UNCHANGED <<job_mode, file_exists, chunks, total_chunks, failed_chunks,
                   chunks_escalated, final_summary, carbon_report, failed, pending,
                   invoked, history>>

CheckP == WriteStep("check_p", "progress", Pct(55), "check_m") /\ Enter("check_accuracy")

\* orchestrator.py:146-152
CheckM ==
    /\ pc = "check_m"
    /\ SetField("message", Msg("Step 3/4: Checking", 0))
    /\ acc' = <<>>
    /\ failed' = <<>>
    /\ idx' = 0
    /\ Stay("check_loop")
    /\ resp' = NoResp
    /\ UNCHANGED <<pool, documents, env, calls>>
    /\ UNCHANGED <<job_mode, file_exists, runstate, pending, invoked, history>>

\* one iteration of "for i, (chunk, summary) in enumerate(zip(chunks, summaries))";
\* the verifier's answer is an input (orchestrator.py:154-165)
CheckIter ==
    /\ pc = "check_loop"
    /\ idx < Min(chunks, Len(summaries))
    /\ \E outcome \in Predictions(checker_model, checker_loaded,
                                   <<idx + 1, summaries[idx + 1]>>) :
         /\ last_check' = outcome
         /\ IF run_accuracy_check(outcome)
            THEN /\ acc' = Append(acc, summaries[idx + 1])
                 /\ failed' = failed
            ELSE /\ failed' = Append(failed, idx + 1)
                 /\ acc' = acc
    /\ idx' = idx + 1
    /\ SetField("progress", GateProgress(idx + 1, total_chunks))
    /\ Stay("check_loop")
    /\ resp' = NoResp
    /\ UNCHANGED <<pool, documents, env, compile_log>>
    /\ UNCHANGED <<job_mode, file_exists, runstate, pending, invoked, history>>

\* orchestrator.py:169-173 and the conditional edge should_rerun
CheckReturn ==
    /\ pc = "check_loop"
    /\ idx >= Min(chunks, Len(summaries))
    /\ failed_chunks' = failed
    /\ summaries' = acc
    /\ chunks_escalated' = ChunksEscalated(failed)
    /\ firstRejected' = IF steps = 3 THEN SeqToSet(failed) ELSE firstRejected
    /\ Advance(should_rerun(failed))
    /\ acc' = <<>>
    /\ failed' = <<>>
    /\ idx' = 0
    /\ last_check' = "none"
    /\ resp' = NoResp
    /\ UNCHANGED <<pool, documents, env, compile_log>>
    /\ UNCHANGED <<job_mode, file_exists, JOB_STATUSES, chunks, total_chunks, final_summary,
                   carbon_report, pending, invoked, escalationRounds>>

Bump(r) == Min(r + 1, MaxRoundsCounted)

EscP == WriteStep("esc_p", "progress", Pct(75), "esc_m") /\ Enter("map_escalate_chunks")

\* message write, then every failed chunk is submitted to the medium tier
\* (orchestrator.py:192-202); escalated_summaries aliases state["summaries"]
EscM ==
    /\ pc = "esc_m"
    /\ SetField("message", Msg("Step 3/4: Escalating", Len(failed_chunks)))
    /\ acc' = summaries
    /\ pending' = EscalationFutures(failed_chunks)
    /\ escalationRounds' = [c \in Chunks |->
           IF c \in EscalationFutures(failed_chunks) THEN Bump(escalationRounds[c])
           ELSE escalationRounds[c]]
    /\ Stay("esc_collect")
    /\ resp' = NoResp
    /\ UNCHANGED <<pool, documents, env, calls>>
    /\ UNCHANGED <<job_mode, file_exists, runstate, failed, idx, invoked, firstRejected>>

\* orchestrator.py:204-210; the node's locals end with its return
EscCollect ==
    /\ pc = "esc_collect"
    /\ \E c \in pending, ok \in CallOutcomes(faulty) :
         LET summary == run_medium_summarizer(c, ok) IN
         /\ pending' = pending \ {c}
         /\ IF summary = WorkerRaised
            THEN /\ Raise(Msg("Summarizer exception", 0))
                 /\ UNCHANGED <<acc, summaries, failed_chunks>>
            ELSE IF pending' = {}
            THEN /\ summaries' = CollectEscalated(acc, summary)
                 /\ failed_chunks' = EscalatedFailedChunks(failed_chunks)
                 /\ acc' = <<>>
                 /\ Advance(workflow("map_escalate_chunks"))
            ELSE /\ acc' = CollectEscalated(acc, summary)
                 /\ UNCHANGED <<summaries, failed_chunks>>
                 /\ Stay("esc_collect")
    /\ resp' = NoResp
    /\ UNCHANGED <<pool, documents, env, calls>>
    /\ UNCHANGED <<job_mode, file_exists, JOB_STATUSES, chunks, total_chunks, chunks_escalated,
                   final_summary, carbon_report, failed, idx, invoked, history>>

ReduceP == WriteStep("reduce_p", "progress", Pct(85), "reduce_m") /\ Enter("reduce_compile_summary")

ReduceM ==
    /\ WriteStep("reduce_m", "message", Msg("Step 4/4: Compiling", 0), "reduce_body")
    /\ UNCHANGED invoked

\* models.py:167
max_retries == 3

\* what one Groq call does: a completion, a rate-limit error (429), another error
CompileOutcomes(f) == IF f THEN {"ok", "429", "error"} ELSE {"ok"}

\* models.py:179-184: the completion obtained by attempt k from the joined summaries
CompileFinal(s, k) == [kind |-> "compiled", src |-> s, attempt |-> k]

\* models.py:192: "Final summary generation failed: ..."
CompileFailure == [kind |-> "compile failed"]

\* models.py:194: "Summary failed due to Rate Limits."
RateLimitFailure == [kind |-> "rate limited"]

\* the loop goes round again
Retrying == [kind |-> "retrying"]

run_large_model_compile_retry_any(s, outcomes) ==
    LET k == Len(outcomes) IN
    IF outcomes[k] = "ok" THEN CompileFinal(s, k)
    ELSE IF k >= max_retries THEN RateLimitFailure
    ELSE Retrying

run_large_model_compile_one_more(s, outcomes) ==
    LET k == Len(outcomes) IN
    IF outcomes[k] = "ok" THEN CompileFinal(s, k)
    ELSE IF outcomes[k] = "error" THEN CompileFailure
    ELSE IF k >= max_retries + 1 THEN RateLimitFailure
    ELSE Retrying

run_large_model_compile_no_retry(s, outcomes) ==
    LET k == Len(outcomes) IN
    IF outcomes[k] = "ok" THEN CompileFinal(s, k) ELSE CompileFailure

\* models.py:167-194, after the calls in outcomes: the value returned, or Retrying
run_large_model_compile(s, outcomes) ==
    LET k == Len(outcomes) IN
    IF outcomes[k] = "ok" THEN CompileFinal(s, k)
    ELSE IF outcomes[k] = "error" THEN CompileFailure
    ELSE IF k >= max_retries THEN RateLimitFailure
    ELSE Retrying

\* one attempt of the loop in run_large_model_compile, and, when the call returns,
\* the return of reduce_compile_summary (orchestrator.py:223-230)
ReduceBody ==
    /\ pc = "reduce_body"
    /\ \E outcome \in CompileOutcomes(faulty) :
         LET result == run_large_model_compile(summaries, Append(compile_log, outcome)) IN
         /\ compile_log' = Append(compile_log, outcome)
         /\ IF result = Retrying
            THEN /\ final_summary' = final_summary
                 /\ Stay("reduce_body")
            ELSE /\ final_summary' = result
                 /\ Advance(workflow("reduce_compile_summary"))
    /\ Enter("CompileFinal")
    /\ resp' = NoResp
    /\ UNCHANGED <<pool, documents, env, last_check>>
    /\ UNCHANGED <<job_mode, file_exists, JOB_STATUSES, chunks, total_chunks, summaries,
                   failed_chunks, chunks_escalated, carbon_report, locals, history>>

StoreM ==
    /\ WriteStep("store_m", "message", Msg("Indexing data for search", 0), "store_body")
    /\ Enter("store_for_rag")

\* orchestrator.py:242-252: the document row is written without carbon_meta; the node
\* returns the state it was given, which changes no field
StoreBody ==
    /\ pc = "store_body"
    /\ documents' = store_document_data(documents, job_id, final_summary, EmptyMeta, TRUE)
    /\ Enter("PersistRun")
    /\ Advance(workflow("store_for_rag"))
    /\ resp' = NoResp
    /\ UNCHANGED <<pool, env, calls>>
    /\ UNCHANGED <<job_mode, file_exists, JOB_STATUSES, runstate, locals, history>>

CarbonP == WriteStep("carbon_p", "progress", Pct(100), "carbon_m") /\ Enter("calculate_carbon")

CarbonM ==
    /\ WriteStep("carbon_m", "message", Msg("Job Complete.", 0), "carbon_s")
    /\ UNCHANGED invoked

CarbonS ==
    /\ WriteStep("carbon_s", "status", "completed", "carbon_body")
    /\ UNCHANGED invoked

\* orchestrator.py:263-280
CarbonBody ==
    /\ pc = "carbon_body"
    /\ \E usage \in UsageChars :
         LET report == calculate_carbon_savings(total_chunks, chunks_escalated, usage) IN
         /\ carbon_report' = report
         /\ documents' = store_document_data(documents, job_id, final_summary,
                                             CarbonMeta(report), TRUE)
    /\ Enter("PersistRun")
    /\ Advance(workflow("calculate_carbon"))
    /\ resp' = NoResp
    /\ UNCHANGED <<pool, env, calls>>
    /\ UNCHANGED <<job_mode, file_exists, JOB_STATUSES, chunks, total_chunks, summaries,
                   failed_chunks, chunks_escalated, final_summary, locals, history>>

\* ---- Eco mode: run_carbon_router (orchestrator.py:283-377) ----

RouterSummary == [kind |-> "carbon router analysis"]
RouterReport == [kind |-> "router", total_chunks |-> 1, chunks_escalated |-> 0]

RouterP == WriteStep("router_p", "progress", Pct(50), "router_m") /\ Enter("run_carbon_router")

RouterM ==
    /\ WriteStep("router_m", "message", Msg("Analyzing Carbon Footprint & Routing", 0), "router_body")
    /\ UNCHANGED invoked

RouterFailureText == Msg("Carbon Router Failed", 0)

\* orchestrator.py:295-341 and 375-377: analyze_pdf_carbon_impact may raise, the node
\* re-raises; store_document_data is reached only when the analysis returned
RouterBody ==
    /\ pc = "router_body"
    /\ \E ok \in BOOLEAN :
         IF ok
         THEN /\ documents' = store_document_data(documents, job_id, RouterSummary,
                                                  RouterMeta, TRUE)
              /\ Enter("PersistRun")
              /\ Stay("router_p2")
         ELSE /\ documents' = documents
              /\ invoked' = invoked
              /\ Raise(RouterFailureText)
    /\ resp' = NoResp
    /\ UNCHANGED <<pool, env, calls>>
    /\ UNCHANGED <<job_mode, file_exists, JOB_STATUSES, runstate, locals, history>>

RouterP2 ==
    /\ WriteStep("router_p2", "progress", Pct(100), "router_m2")
    /\ UNCHANGED invoked

RouterM2 ==
    /\ WriteStep("router_m2", "message", Msg("Carbon Routing Analysis Complete.", 0), "router_s")
    /\ UNCHANGED invoked

\* orchestrator.py:345 and the node's return (356-373)
RouterS ==
    /\ pc = "router_s"
    /\ SetField("status", "complete")
    /\ final_summary' = RouterSummary
    /\ carbon_report' = RouterReport
    /\ Advance(workflow("run_carbon_router"))
    /\ resp' = NoResp
    /\ UNCHANGED <<pool, documents, env, calls>>
    /\ UNCHANGED <<job_mode, file_exists, chunks, total_chunks, summaries, failed_chunks,
                   chunks_escalated, locals, invoked, history>>

\* ---- the end of run_orchestrator_job ----

\* main.py:159-174
Finish ==
    /\ pc = "finish"
    /\ SetSnapshot(FinalSnapshot(final_summary, carbon_report))
    /\ Stay("cleanup")
    /\ resp' = NoResp
    /\ UNCHANGED <<pool, documents, env, calls>>
    /\ UNCHANGED <<job_mode, file_exists, runstate, locals, invoked, history>>

\* main.py:177
Cleanup ==
    /\ pc = "cleanup"
    /\ file_exists' = FALSE
    /\ Stay("done")
    /\ resp' = NoResp
    /\ UNCHANGED <<pool, documents, env, calls>>
    /\ UNCHANGED <<job_mode, JOB_STATUSES, runstate, locals, invoked, history>>

\* main.py:179-181
Except ==
    /\ pc = "except"
    /\ SetSnapshot(ErrorSnapshot(err))
    /\ Stay("done")
    /\ resp' = NoResp
    /\ UNCHANGED <<pool, documents, env, calls>>
    /\ UNCHANGED <<job_mode, file_exists, runstate, locals, invoked, history>>

\* ---- the poller ----

\* get_job_status (main.py:216-237)
StatusResponse(j) ==
    IF JOB_STATUSES[j] = NoEntry
    THEN [kind |-> "status", code |-> 404]
    ELSE [kind |-> "status", code |-> 200,
          status |-> JOB_STATUSES[j].status,
          progress |-> JOB_STATUSES[j].progress,
          message |-> JOB_STATUSES[j].message]

ResultResponse_processing_only(j) ==
    IF JOB_STATUSES[j] = NoEntry
    THEN [kind |-> "result", code |-> 404]
    ELSE IF JOB_STATUSES[j].status = "processing"
    THEN [kind |-> "result", code |-> 400]
    ELSE IF ~JOB_STATUSES[j].result.has
    THEN [kind |-> "result", code |-> 500]
    ELSE [kind |-> "result", code |-> 200, body |-> JOB_STATUSES[j].result]

\* get_job_result (main.py:241-253); status["result"] raises KeyError when absent
ResultResponse(j) ==
    IF JOB_STATUSES[j] = NoEntry
    THEN [kind |-> "result", code |-> 404]
    ELSE IF JOB_STATUSES[j].status # "complete"
    THEN [kind |-> "result", code |-> 400]
    ELSE IF ~JOB_STATUSES[j].result.has
    THEN [kind |-> "result", code |-> 500]
    ELSE [kind |-> "result", code |-> 200, body |-> JOB_STATUSES[j].result]

GetStatus ==
    /\ \E j \in JobIds : resp' = StatusResponse(j)
    /\ UNCHANGED <<pc, steps, err, job_mode, file_exists, JOB_STATUSES, runstate, locals,
                   invoked, history, env, calls, pool, documents>>

GetResult ==
    /\ \E j \in JobIds : resp' = ResultResponse(j)
    /\ UNCHANGED <<pc, steps, err, job_mode, file_exists, JOB_STATUSES, runstate, locals,
                   invoked, history, env, calls, pool, documents>>

\* ---- specification ----

Pipeline ==
    \/ RunJobInit \/ start_job
    \/ TriageP \/ TriageM \/ TriageBody
    \/ MapP \/ MapM \/ MapCollect \/ MapCollectM
    \/ CheckP \/ CheckM \/ CheckIter \/ CheckReturn
    \/ EscP \/ EscM \/ EscCollect
    \/ ReduceP \/ ReduceM \/ ReduceBody
    \/ StoreM \/ StoreBody
    \/ CarbonP \/ CarbonM \/ CarbonS \/ CarbonBody
    \/ RouterP \/ RouterM \/ RouterBody \/ RouterP2 \/ RouterM2 \/ RouterS
    \/ Finish \/ Cleanup \/ Except

\* the job alone: submission and its background task
JobNext ==
    \/ \E mode \in Modes : Submit(mode)
    \/ Pipeline

Next ==
    \/ JobNext
    \/ GetStatus
    \/ GetResult

Spec == Init /\ [][Next]_vars

\* The background task, once queued, runs to its end (main.py:200). The polls only
\* write resp, which no step of the job reads, so the job is followed without them.
FairSpec == Init /\ [][JobNext]_vars /\ WF_vars(Pipeline)

\* The job alone, in an environment whose summarizer and compiler backends may fail.
FaultSpec == InitFaulty /\ [][JobNext]_vars

\* a healthy run whose loaded checker gives every pair one prediction
InitPairChecker ==
    /\ Start
    /\ faulty = FALSE
    /\ checker_loaded = TRUE
    /\ checker_model \in PairCheckers

\* The job alone, with a checker whose answer depends on the pair it is given only.
GateSpec == InitPairChecker /\ [][JobNext]_vars

\* ---- the job next to another job ----

\* the uuid of another submission (main.py:114)
other_job == "other"

\* the snapshot the other job's task writes under its own id when its graph has
\* returned (main.py:163-174)
OtherSnapshots == {FinalSnapshot(RouterSummary, RouterReport)}

\* the other job was submitted before: its task has started (main.py:135) and has
\* stored its document row; this job is not submitted yet
InitJobs ==
    /\ pc = "idle"
    /\ job_mode = "balanced"
    /\ file_exists = FALSE
    /\ JOB_STATUSES = [j \in {job_id, other_job} |->
                           IF j = other_job THEN InitialSnapshot ELSE NoEntry]
    /\ chunks = 0
    /\ total_chunks = 0
    /\ summaries = <<>>
    /\ failed_chunks = <<>>
    /\ chunks_escalated = 0
    /\ final_summary = EmptySummary
    /\ carbon_report = EmptyReport
    /\ acc = <<>>
    /\ failed = <<>>
    /\ idx = 0
    /\ pending = {}
    /\ steps = 0
    /\ err = Msg("none", 0)
    /\ resp = NoResp
    /\ invoked = {}
    /\ escalationRounds = [c \in Chunks |-> 0]
    /\ firstRejected = {}
    /\ compile_log = <<>>
    /\ last_check = "none"
    /\ faulty = FALSE
    /\ checker_loaded = TRUE
    /\ checker_model = AnyChecker
    /\ documents = {DocumentModel(other_job, RouterSummary, RouterMeta)}
    /\ running = {}
    /\ model_usage_chars = Untracked
    /\ content = <<>>
    /\ thread = <<>>

\* the end of the other job's task, at any moment of this job's run:
\* run_orchestrator_job called with the other job_id replaces the snapshot stored
\* under that id
OtherJob ==
    /\ JOB_STATUSES[other_job].status = "processing"
    /\ \E s \in OtherSnapshots : JOB_STATUSES' = [JOB_STATUSES EXCEPT ![other_job] = s]
    /\ UNCHANGED <<pc, steps, err, job_mode, file_exists, runstate, locals, resp, invoked,
                   history, env, calls, pool, documents>>

JobsNext ==
    \/ JobNext
    \/ OtherJob

\* Two background tasks run side by side (main.py:200): this job step by step, the
\* other one through its writes to the registry.
JobsSpec == InitJobs /\ [][JobsNext]_vars

\* ---- the cost report as a function of its inputs ----

\* a run that reaches calculate_carbon with any unit count and any escalated count
CostInit ==
    /\ pc = "cost"
    /\ job_mode = "balanced"
    /\ file_exists = TRUE
    /\ JOB_STATUSES = [j \in JobIds |-> NoEntry]
    /\ total_chunks \in 0..MaxCostUnits
    /\ chunks = total_chunks
    /\ chunks_escalated \in 0..total_chunks
    /\ summaries = <<>>
    /\ failed_chunks = <<>>
    /\ final_summary = EmptySummary
    /\ carbon_report = EmptyReport
    /\ acc = <<>>
    /\ failed = <<>>
    /\ idx = 0
    /\ pending = {}
    /\ steps = 0
    /\ err = Msg("none", 0)
    /\ resp = NoResp
    /\ invoked = {}
    /\ escalationRounds = [c \in Chunks |-> 0]
    /\ firstRejected = {}
    /\ compile_log = <<>>
    /\ last_check = "none"
    /\ faulty = FALSE
    /\ checker_loaded = TRUE
    /\ checker_model = AnyChecker
    /\ documents = {}
    /\ running = {}
    /\ model_usage_chars = Untracked
    /\ content = <<>>
    /\ thread = <<>>

\* scheduler.calculate_carbon_savings applied to the state, for any usage counters
CostApply ==
    /\ pc = "cost"
    /\ \E usage \in UsageChars :
         carbon_report' = calculate_carbon_savings(total_chunks, chunks_escalated, usage)
    /\ pc' = "costed"
    /\ UNCHANGED <<job_mode, file_exists, JOB_STATUSES, chunks, total_chunks, summaries,
                   failed_chunks, chunks_escalated, final_summary, locals, steps, err, resp,
                   invoked, history, env, calls, pool, documents>>

CostNext == CostApply

CostSpec == CostInit /\ [][CostNext]_vars

\* ---- the documents table under any sequence of calls ----

DocIds == {job_id, "other"}

SampleSummaries == {RouterSummary, CompileFailure, RateLimitFailure}

SampleMetas ==
    {EmptyMeta, RouterMeta,
     CarbonMeta(calculate_carbon_savings(1, 0, NoUsage)),
     CarbonMeta(calculate_carbon_savings(2, 1, NoUsage))}

StoreInit ==
    /\ pc = "store"
    /\ job_mode = "balanced"
    /\ file_exists = FALSE
    /\ JOB_STATUSES = [j \in JobIds |-> NoEntry]
    /\ chunks = 0
    /\ total_chunks = 0
    /\ summaries = <<>>
    /\ failed_chunks = <<>>
    /\ chunks_escalated = 0
    /\ final_summary = EmptySummary
    /\ carbon_report = EmptyReport
    /\ acc = <<>>
    /\ failed = <<>>
    /\ idx = 0
    /\ pending = {}
    /\ steps = 0
    /\ err = Msg("none", 0)
    /\ resp = NoResp
    /\ invoked = {}
    /\ escalationRounds = [c \in Chunks |-> 0]
    /\ firstRejected = {}
    /\ compile_log = <<>>
    /\ last_check = "none"
    /\ faulty = TRUE
    /\ checker_loaded = TRUE
    /\ checker_model = AnyChecker
    /\ documents = {}
    /\ running = {}
    /\ model_usage_chars = Untracked
    /\ content = <<>>
    /\ thread = <<>>

\* storage.store_document_data called for any job, with any arguments; the commit may fail
StoreCall ==
    /\ pc = "store"
    /\ \E id \in DocIds, summary \in SampleSummaries, meta \in SampleMetas,
          ok \in CallOutcomes(faulty) :
         documents' = store_document_data(documents, id, summary, meta, ok)
    /\ UNCHANGED <<pc, job_mode, file_exists, JOB_STATUSES, runstate, locals, steps, err,
                   resp, invoked, history, env, calls, pool>>

StoreNext == StoreCall

StoreSpec == StoreInit /\ [][StoreNext]_vars

\* ---- a parallel stage, thread by thread ----

\* the size of a unit's text, in characters
len(c) == content[c]

\* models.py:51
max_chunk_length == 1024

\* models.py:52-53: text = text[:max_chunk_length] when the text is longer
truncated(n) == Min(n, max_chunk_length)

\* the counter a stage's summarizer updates (models.py:64 and 113)
tier(node) == IF node = "map_summarize_chunks" THEN "light" ELSE "medium"

max_workers_swapped(node) == IF node = "map_summarize_chunks" THEN 4 ELSE 8

\* orchestrator.py:114 and 196: ThreadPoolExecutor(max_workers = ...)
max_workers(node) == IF node = "map_summarize_chunks" THEN 8 ELSE 4

\* models.py:49-69 and 106-118: the counter is increased after the backend call,
\* inside the try block, so a failed call leaves it as it was; the light tier counts
\* the truncated text, the medium tier the whole text
usage_after(node, usage, c, ok) ==
    IF ~ok THEN usage
    ELSE IF node = "map_summarize_chunks"
    THEN [usage EXCEPT !.light = @ + truncated(len(c))]
    ELSE [usage EXCEPT !.medium = @ + len(c)]

\* the stage node that runs: the light map pass, or an escalation pass
Stage == CHOOSE node \in {"map_summarize_chunks", "map_escalate_chunks"} : node \in invoked

\* a map pass over any number of units, or an escalation pass after a gate pass that
\* rejected every unit, with backends that may fail
PoolInit ==
    /\ pc = "pool_submit"
    /\ job_mode = "balanced"
    /\ file_exists = TRUE
    /\ JOB_STATUSES = [j \in JobIds |-> NoEntry]
    /\ chunks \in 1..MaxPoolUnits
    /\ total_chunks = chunks
    /\ invoked \in {{"map_summarize_chunks"}, {"map_escalate_chunks"}}
    /\ failed_chunks = IF "map_escalate_chunks" \in invoked
                       THEN [k \in 1..chunks |-> k] ELSE <<>>
    /\ summaries = <<>>
    /\ chunks_escalated = Len(failed_chunks)
    /\ final_summary = EmptySummary
    /\ carbon_report = EmptyReport
    /\ acc = <<>>
    /\ failed = <<>>
    /\ idx = 0
    /\ pending = {}
    /\ steps = 0
    /\ err = Msg("none", 0)
    /\ resp = NoResp
    /\ escalationRounds = [c \in Chunks |-> 0]
    /\ firstRejected = {}
    /\ compile_log = <<>>
    /\ last_check = "none"
    /\ faulty = TRUE
    /\ checker_loaded = TRUE
    /\ checker_model = AnyChecker
    /\ documents = {}
    /\ running = {}
    /\ model_usage_chars = NoUsage
    /\ content = [c \in 1..chunks |-> 1]
    /\ thread = <<>>

PoolFrame ==
    UNCHANGED <<job_mode, file_exists, JOB_STATUSES, runstate, acc, failed, steps, err,
                resp, invoked, history, env, calls, documents>>

\* orchestrator.py:116-121 and 197-202: every future is submitted to the executor
PoolSubmit ==
    /\ pc = "pool_submit"
    /\ pending' = IF Stage = "map_summarize_chunks"
                  THEN 1..chunks ELSE EscalationFutures(failed_chunks)
    /\ pc' = "pool_run"
    /\ UNCHANGED <<idx, pool>>
    /\ PoolFrame

\* a thread of the pool takes a queued future; the executor never runs more than
\* max_workers threads
WorkerStart ==
    /\ pc = "pool_run"
    /\ Cardinality(running) < max_workers(Stage)
    /\ \E c \in pending \ running : running' = running \cup {c}
    /\ UNCHANGED <<pc, idx, pending, model_usage_chars, content, thread>>
    /\ PoolFrame

\* the summarizer returns in its thread and as_completed yields the future
\* (orchestrator.py:124-125 and 204-205); PoolSpec takes the call and its update of the
\* counter in one step, RaceSpec follows the update read by write
WorkerReturn ==
    /\ pc = "pool_run"
    /\ \E c \in running, ok \in CallOutcomes(faulty) :
         /\ running' = running \ {c}
         /\ pending' = pending \ {c}
         /\ model_usage_chars' = usage_after(Stage, model_usage_chars, c, ok)
    /\ idx' = idx + 1
    /\ pc' = pc
    /\ UNCHANGED <<content, thread>>
    /\ PoolFrame

\* the loop over as_completed ends and the with block joins the pool
\* (orchestrator.py:132 and 207)
PoolJoin ==
    /\ pc = "pool_run"
    /\ pending = {}
    /\ pc' = "pool_returned"
    /\ UNCHANGED <<idx, pending, pool>>
    /\ PoolFrame

PoolNext == PoolSubmit \/ WorkerStart \/ WorkerReturn \/ PoolJoin

PoolSpec == PoolInit /\ [][PoolNext]_vars

\* ---- the usage counter under the threads' "+=" ----

\* sizes of a unit's text: below and above max_chunk_length
ContentChars == {1000, 2000}

\* a thread that has not reached the "+=" of its summarizer call
Queued == [at |-> "queued", v |-> 0]

\* a stage over units of any of the sizes; no thread has started
RaceInit ==
    /\ pc = "pool_submit"
    /\ job_mode = "balanced"
    /\ file_exists = TRUE
    /\ JOB_STATUSES = [j \in JobIds |-> NoEntry]
    /\ chunks \in 1..MaxRaceUnits
    /\ total_chunks = chunks
    /\ invoked \in {{"map_summarize_chunks"}, {"map_escalate_chunks"}}
    /\ failed_chunks = IF "map_escalate_chunks" \in invoked
                       THEN [k \in 1..chunks |-> k] ELSE <<>>
    /\ summaries = <<>>
    /\ chunks_escalated = Len(failed_chunks)
    /\ final_summary = EmptySummary
    /\ carbon_report = EmptyReport
    /\ acc = <<>>
    /\ failed = <<>>
    /\ idx = 0
    /\ pending = {}
    /\ steps = 0
    /\ err = Msg("none", 0)
    /\ resp = NoResp
    /\ escalationRounds = [c \in Chunks |-> 0]
    /\ firstRejected = {}
    /\ compile_log = <<>>
    /\ last_check = "none"
    /\ faulty = TRUE
    /\ checker_loaded = TRUE
    /\ checker_model = AnyChecker
    /\ documents = {}
    /\ running = {}
    /\ model_usage_chars = NoUsage
    /\ content \in [1..chunks -> ContentChars]
    /\ thread = [c \in 1..chunks |-> Queued]

\* the backend call of a running thread returns; when it succeeded the thread
\* evaluates the left side of state["model_usage_chars"][tier] += len(text): it reads
\* the counter (models.py:64, 113). When it raised, the except branch returns the
\* sentinel and as_completed yields the future (models.py:67-69, 116-118)
WorkerLoad ==
    /\ pc = "pool_run"
    /\ \E c \in running, ok \in CallOutcomes(faulty) :
         /\ thread[c].at = "queued"
         /\ IF ok
            THEN /\ thread' = [thread EXCEPT
                                  ![c] = [at |-> "loaded", v |-> model_usage_chars[tier(Stage)]]]
                 /\ UNCHANGED <<running, pending, idx>>
            ELSE /\ thread' = [thread EXCEPT ![c] = [at |-> "failed", v |-> 0]]
                 /\ running' = running \ {c}
                 /\ pending' = pending \ {c}
                 /\ idx' = idx + 1
    /\ UNCHANGED <<pc, model_usage_chars, content>>
    /\ PoolFrame

\* the thread adds len(text) to the value it read and stores the sum in the counter;
\* the summarizer returns and as_completed yields the future
WorkerStore ==
    /\ pc = "pool_run"
    /\ \E c \in running :
         /\ thread[c].at = "loaded"
         /\ model_usage_chars' =
                usage_after(Stage, [model_usage_chars EXCEPT ![tier(Stage)] = thread[c].v],
                            c, TRUE)
         /\ thread' = [thread EXCEPT ![c] = [at |-> "stored", v |-> 0]]
         /\ running' = running \ {c}
         /\ pending' = pending \ {c}
    /\ idx' = idx + 1
    /\ UNCHANGED <<pc, content>>
    /\ PoolFrame

RaceNext == PoolSubmit \/ WorkerStart \/ WorkerLoad \/ WorkerStore \/ PoolJoin

RaceSpec == RaceInit /\ [][RaceNext]_vars

\* ---- properties ----

Terminal == snap.status \in {"complete", "error"}

TriageFailureText == Msg("Triage returned no chunks. Cannot proceed.", 0)

\* the first AccuracyGate pass has returned (start_job, triage, map, gate = 4 super-steps)
FirstGateDone == steps >= 4

\* C1: no unit is submitted to the medium tier more than once in a run
\* (escalationRounds[i] <= 1 for every unit i, whatever the verifier answers).
C1_EscalationCeiling == \A c \in Chunks : escalationRounds[c] <= 1

\* C2: every started job eventually reaches a terminal status (complete or error),
\* for every behaviour of the verifier.
C2_JobTerminates == (pc # "idle") ~> Terminal

C2_Witness ==
    /\ pc = "done"
    /\ snap.status = "error"
    /\ err = Msg("Recursion limit reached", 0)
    /\ \E c \in Chunks : escalationRounds[c] >= 2

\* C3: after the light-tier map pass, outputs[i] is the output produced from units[i],
\* for every completion order of the workers.
C3_OutputsAligned ==
    (pc = "check_p" /\ steps = 3) =>
        /\ Len(summaries) = chunks
        /\ \A i \in 1..Len(summaries) : summaries[i] = Light(i)

\* C4: the progress stored in the job's snapshot never decreases from one write to the next.
C4_ProgressMonotone ==
    [][(snap # NoEntry /\ JOB_STATUSES'[job_id] # NoEntry)
         => JOB_STATUSES'[job_id].progress >= snap.progress]_vars

\* C5: once the snapshot's status is complete or error, the snapshot is never written again.
C5_TerminalFrozen == [][Terminal => JOB_STATUSES' = JOB_STATUSES]_vars

\* the (status, progress, message) values the store holds after a whole node update
CompleteUpdates ==
    {<<"processing", Pct(5), Msg("Job initialized", 0)>>,
     <<"processing", Pct(5), Msg("Starting job", 0)>>,
     <<"processing", Pct(15), Msg("Step 1/4: Triage", 0)>>,
     <<"processing", Pct(25), Msg("Step 2/4: Light", 0)>>,
     <<"processing", Pct(55), Msg("Step 3/4: Checking", 0)>>,
     <<"processing", Pct(85), Msg("Step 4/4: Compiling", 0)>>,
     <<"processing", Pct(85), Msg("Indexing data for search", 0)>>,
     <<"completed", Pct(100), Msg("Job Complete.", 0)>>,
     <<"processing", Pct(50), Msg("Analyzing Carbon Footprint & Routing", 0)>>,
     <<"complete", Pct(100), Msg("Carbon Routing Analysis Complete.", 0)>>,
     <<"complete", Pct(100), Msg("Job complete. Results are ready.", 0)>>,
     <<"error", Pct(100), TriageFailureText>>,
     <<"error", Pct(100), RouterFailureText>>,
     <<"error", Pct(100), Msg("Recursion limit reached", 0)>>}
    \cup {<<"processing", MapProgress(k, n), Msg("Step 2/4: Light done", k)>> :
             k \in 1..(MaxUnits + 1), n \in 1..(MaxUnits + 1)}
    \cup {<<"processing", GateProgress(k, n), Msg("Step 3/4: Checking", 0)>> :
             k \in 1..(MaxUnits + 1), n \in 1..(MaxUnits + 1)}
    \cup {<<"processing", Pct(75), Msg("Step 3/4: Escalating", k)>> : k \in 1..(MaxUnits + 1)}

\* C6: a GetStatus read concurrent with the pipeline's updates returns the
\* (status, progress, message) of one single node update, never a mix of two.
C6_ReadsConsistent ==
    (resp.kind = "status" /\ resp.code = 200) =>
        <<resp.status, resp.progress, resp.message>> \in CompleteUpdates

\* C7: the per-unit output sequence has length N after the first map pass and after
\* every EscalateMedium pass.
C7_OutputLength ==
    (pc = "check_p" \/ (pc = "except" /\ err = Msg("Recursion limit reached", 0)))
        => Len(summaries) = chunks

C7_Witness ==
    /\ pc = "check_p"
    /\ steps >= 5
    /\ chunks >= 2
    /\ Len(summaries) = chunks

\* C8: if the verifier rejects exactly k >= 1 units on the first AccuracyGate pass,
\* EscalateMedium runs for exactly those k units, no later gate pass escalates again,
\* and the final cost report has escalatedCount = k.
C8_EscalationScenario ==
    (FirstGateDone /\ firstRejected # {}) =>
        /\ steps >= 5 =>
             \A c \in Chunks : escalationRounds[c] = (IF c \in firstRejected THEN 1 ELSE 0)
        /\ (pc = "done" /\ snap.status = "complete") =>
             snap.result.carbon_data.chunks_escalated = Cardinality(firstRejected)

\* C9: if the verifier accepts every unit on the first AccuracyGate pass, EscalateMedium
\* never runs and the job ends complete, at progress 100, with escalatedCount = 0.
C9_AllAccepted ==
    (FirstGateDone /\ firstRejected = {}) =>
        /\ "map_escalate_chunks" \notin invoked
        /\ pc \notin {"except", "esc_p", "esc_m", "esc_collect"}
        /\ pc = "done" =>
             /\ snap.status = "complete"
             /\ snap.progress = Pct(100)
             /\ snap.result.has
             /\ snap.result.carbon_data.chunks_escalated = 0

C9_Witness ==
    /\ pc = "done"
    /\ FirstGateDone
    /\ firstRejected = {}
    /\ chunks >= 2
    /\ snap.status = "complete"

LaterNodes ==
    {"map_summarize_chunks", "check_accuracy", "map_escalate_chunks", "reduce_compile_summary",
     "store_for_rag", "calculate_carbon", "run_carbon_router", "CompileFinal", "PersistRun"}

\* C10: if Triage returns no unit, the job's status becomes error with the failure text
\* as message, and no map, gate, compile, persist or cost node is ever invoked.
C10_EmptyTriage ==
    ("Triage" \in invoked /\ chunks = 0) =>
        /\ pc \in {"except", "done"}
        /\ invoked \cap LaterNodes = {}
        /\ pc = "done" =>
             /\ snap.status = "error"
             /\ snap.message = TriageFailureText

C10_Witness ==
    /\ "Triage" \in invoked
    /\ chunks = 0
    /\ pc = "done"
    /\ snap.status = "error"

NoError == Msg("none", 0)

StandardNodes ==
    {"triage_document", "Triage", "map_summarize_chunks", "check_accuracy",
     "map_escalate_chunks", "reduce_compile_summary", "CompileFinal", "store_for_rag",
     "calculate_carbon"}

\* C11: in Eco mode the graph branches at start_job to run_carbon_router only: no triage,
\* map, gate, escalate, reduce, store or cost node ever runs, and the result of a
\* completed job carries the carbon-routing report text as final summary; in any other
\* mode run_carbon_router never runs.
C11_EcoRouting ==
    "start_job" \in invoked =>
        IF lower(job_mode) = "eco"
        THEN /\ invoked \cap StandardNodes = {}
             /\ pc \in {"router_p", "router_m", "router_body", "router_p2", "router_m2",
                        "router_s", "finish", "cleanup", "except", "done"}
             /\ (pc \in {"finish", "cleanup"}) => "run_carbon_router" \in invoked
             /\ (snap.status = "complete" /\ snap.result.has) =>
                    snap.result.final_summary = RouterSummary
        ELSE "run_carbon_router" \notin invoked

C11_Witness ==
    /\ job_mode = "Eco"
    /\ pc = "done"
    /\ snap.status = "complete"
    /\ snap.result.final_summary = RouterSummary
    /\ invoked = {"start_job", "run_carbon_router", "PersistRun"}

AllRateLimited(log) == \A k \in 1..Len(log) : log[k] = "429"

C13_EfficiencyZero ==
    pc = "costed" =>
        (carbon_report.efficiency_percent.num = 0 <=> carbon_report.baseline_cost_gco2e <= 0)

C13_Witness ==
    /\ pc = "costed"
    /\ total_chunks = 0
    /\ carbon_report.efficiency_percent.num = 0

C15_SnapshotOnSubmit ==
    pc # "idle" =>
        /\ snap # NoEntry
        /\ resp.kind = "status" => resp.code = 200
        /\ pc = "start_job" => (snap.status = "processing" /\ snap.progress = 0)

\* C16: GetStatus and GetResult answer NotFound for an id without snapshot, GetResult
\* answers NotReady whenever the snapshot's status is not complete, and a poll that is
\* answered with an error leaves the store as it was.
C16_PollErrors ==
    [][resp' # NoResp =>
         /\ JOB_STATUSES' = JOB_STATUSES
         /\ snap = NoEntry => resp'.code = 404
         /\ (resp'.kind = "result" /\ snap # NoEntry /\ snap.status # "complete") =>
                resp'.code = 400]_vars

C16_Witness ==
    /\ resp = [kind |-> "result", code |-> 400]
    /\ snap.status = "error"

Produced(s, n) == {c \in 1..n : Light(c) \in SeqToSet(s) \/ Medium(c) \in SeqToSet(s)}

Sentinels(s) == Cardinality({k \in 1..Len(s) : s[k] = SummaryFailed})

\* C17: a failed light or medium summarizer call never aborts the run: the unit's output
\* is the sentinel text, every other unit is still processed (after each map or escalate
\* pass there is one output per unit), and the job never ends in error because of it.
C17_SummarizerFailure ==
    /\ pc = "check_p" =>
           /\ Len(summaries) = chunks
           /\ \A k \in 1..Len(summaries) :
                  summaries[k] \in {SummaryFailed} \cup {Light(c) : c \in 1..chunks}
                                   \cup {Medium(c) : c \in 1..chunks}
    /\ (pc = "check_p" /\ steps = 3) =>
           Cardinality(Produced(summaries, chunks)) + Sentinels(summaries) = chunks
    /\ err \in {NoError, TriageFailureText, RouterFailureText,
                Msg("Recursion limit reached", 0)}

C17_Witness ==
    /\ pc = "done"
    /\ snap.status = "complete"
    /\ chunks >= 2
    /\ Sentinels(summaries) = 1
    /\ Produced(summaries, chunks) # {}

EscalatePositions == {"esc_p", "esc_m", "esc_collect"}

\* C18: when the verifier is unavailable or raises during a check, the unit under check
\* is accepted; when it is unavailable for the whole run, no unit is ever rejected,
\* EscalateMedium never runs and the gate is followed by ReduceCompile.
C18_FailOpen ==
    /\ (pc = "check_loop" /\ last_check \in {"unavailable", "error"}) =>
           /\ idx >= 1
           /\ acc # <<>>
           /\ acc[Len(acc)] = summaries[idx]
           /\ idx \notin SeqToSet(failed)
    /\ ~checker_loaded =>
           /\ failed = <<>>
           /\ failed_chunks = <<>>
           /\ "map_escalate_chunks" \notin invoked
           /\ pc \notin EscalatePositions
           /\ steps >= 4 => (pc = "reduce_p" \/ "reduce_compile_summary" \in invoked)

C18_Witness ==
    /\ ~checker_loaded
    /\ pc = "done"
    /\ chunks >= 2
    /\ "reduce_compile_summary" \in invoked
    /\ snap.status = "complete"

\* C19: the snapshot's status is always one of queued, processing, complete, error and
\* its progress is always between 0 and 100.
C19_SnapshotDomain ==
    snap # NoEntry =>
        /\ snap.status \in {"queued", "processing", "complete", "error"}
        /\ snap.progress >= 0
        /\ snap.progress <= Pct(100)

\* C20: when a node raises, the failure reaches the job's handler at once: no node runs
\* afterwards, the run's state is not written again, and the snapshot ends with status
\* error and the failure's detail as message.
C20_FailurePropagates ==
    [][/\ pc = "except" =>
            /\ invoked' = invoked
            /\ <<chunks, total_chunks, summaries, final_summary, carbon_report>>' =
                   <<chunks, total_chunks, summaries, final_summary, carbon_report>>
            /\ \/ pc' = "except" /\ JOB_STATUSES' = JOB_STATUSES
               \/ /\ pc' = "done"
                  /\ JOB_STATUSES'[job_id].status = "error"
                  /\ JOB_STATUSES'[job_id].message = err
       /\ (pc = "done" /\ err # NoError) =>
            /\ pc' = "done"
            /\ invoked' = invoked
            /\ JOB_STATUSES' = JOB_STATUSES
            /\ snap.status = "error"
            /\ snap.message = err]_vars

C20_Witness ==
    /\ pc = "done"
    /\ err = RouterFailureText
    /\ snap.status = "error"
    /\ snap.message = RouterFailureText
    /\ "run_carbon_router" \in invoked

Rows(table, id) == {r \in table : r.id = id}

\* C21: store_document_data is an idempotent upsert keyed by the job id: a table built by
\* any number of calls holds at most one row per id; a call that commits leaves exactly
\* one row for its id, holding the call's arguments, and the other ids' rows as they
\* were; the same call made again leaves the table unchanged.
C21_IdempotentUpsert ==
    /\ \A id \in DocIds : Cardinality(Rows(documents, id)) <= 1
    /\ \A id \in DocIds, summary \in SampleSummaries, meta \in SampleMetas :
           LET stored == store_document_data(documents, id, summary, meta, TRUE)
               row == [id |-> id, summary |-> summary,
                       carbon_saved_grams |-> meta.carbon_saved_grams,
                       processing_time_seconds |-> meta.processing_time_seconds,
                       total_chunks |-> meta.total_chunks,
                       efficiency_percent |-> meta.efficiency_percent]
           IN /\ Rows(stored, id) = {row}
              /\ \A other \in DocIds \ {id} : Rows(stored, other) = Rows(documents, other)
              /\ store_document_data(stored, id, summary, meta, TRUE) = stored

C21_Witness ==
    /\ pc = "store"
    /\ Cardinality(documents) = 2
    /\ \E r \in Rows(documents, job_id) : r.total_chunks = 2 /\ r.summary = RateLimitFailure

\* C22: at every point of a run after the first map pass has returned, also between an
\* AccuracyGate pass and the EscalateMedium pass that follows it, the output sequence is
\* as long as the unit sequence.
C22_LengthAlways == steps >= 3 => Len(summaries) = chunks

\* C23: failed_chunks is non-empty only between an AccuracyGate pass and the following
\* EscalateMedium pass (or the end of a run that the step limit aborts there):
\* EscalateMedium clears it, and it is empty whenever an AccuracyGate pass starts or
\* runs and whenever ReduceCompile runs.
C23_RejectedWindow ==
    /\ failed_chunks # <<>> =>
           \/ pc \in EscalatePositions
           \/ pc \in {"except", "done"} /\ err = Msg("Recursion limit reached", 0)
    /\ pc \in {"check_p", "check_m", "check_loop", "reduce_p", "reduce_m", "reduce_body"} =>
           failed_chunks = <<>>

C23_Witness ==
    /\ pc = "check_p"
    /\ steps >= 5
    /\ firstRejected # {}
    /\ failed_chunks = <<>>

\* C24: in a run, reduce_compile_summary, calculate_carbon and run_carbon_router are
\* entered at most once, the final summary and the cost report are written at most
\* once, and the cost node and the router never both run, whatever the number of
\* escalation passes.
C24_WrittenOnce ==
    [][/\ (pc = "reduce_p" /\ pc' # pc) => "reduce_compile_summary" \notin invoked
       /\ (pc = "carbon_p" /\ pc' # pc) => "calculate_carbon" \notin invoked
       /\ (pc = "router_p" /\ pc' # pc) => "run_carbon_router" \notin invoked
       /\ final_summary' # final_summary => final_summary = EmptySummary
       /\ carbon_report' # carbon_report => carbon_report = EmptyReport
       /\ ~({"calculate_carbon", "run_carbon_router"} \subseteq invoked')]_vars

C24_Witness ==
    /\ pc = "done"
    /\ snap.status = "complete"
    /\ "calculate_carbon" \in invoked
    /\ \E c \in Chunks : escalationRounds[c] >= 2

\* C25: on every AccuracyGate pass the verifier is given the text of unit i together with
\* the current output of unit i, for every completion order of the preceding stage.
C25_VerifierPairs ==
    (pc = "check_loop" /\ idx < Min(chunks, Len(summaries))) =>
        summaries[idx + 1].u = idx + 1

\* C26: after the first EscalateMedium pass the medium-tier output of every escalated
\* unit i is at index i of the output sequence.
C26_EscalatedInPlace ==
    (pc = "check_p" /\ steps = 5) =>
        \A c \in firstRejected : c <= Len(summaries) /\ summaries[c] = Medium(c)

\* C27: the light map pass calls the light tier once for every unit, and an EscalateMedium
\* pass calls the medium tier once for every unit the preceding AccuracyGate pass
\* rejected and for no other unit.
C27_OncePerUnit ==
    /\ pc \in {"map_collect", "map_collect_m"} =>
           /\ pending \subseteq 1..chunks
           /\ Len(acc) = chunks - Cardinality(pending)
           /\ SeqToSet(acc) = {Light(c) : c \in (1..chunks) \ pending}
    /\ pc = "esc_collect" =>
           LET rejected == SeqToSet(failed_chunks)
               returned == {acc[k] : k \in (Len(summaries) + 1)..Len(acc)}
           IN /\ pending \subseteq rejected
              /\ Len(acc) - Len(summaries) = Cardinality(rejected \ pending)
              /\ returned = {Medium(c) : c \in rejected \ pending}

C27_Witness ==
    /\ pc = "esc_collect"
    /\ chunks >= 2
    /\ Len(failed_chunks) = 1
    /\ pending = SeqToSet(failed_chunks)
    /\ steps >= 6

\* C28: a map pass never has more than 8 summarizer calls in progress, an escalation
\* pass never more than 4, and the stage returns only when every submitted unit has
\* completed.
C28_PoolBounds ==
    /\ running \subseteq pending
    /\ "map_summarize_chunks" \in invoked => Cardinality(running) <= 8
    /\ "map_escalate_chunks" \in invoked => Cardinality(running) <= 4
    /\ pc = "pool_returned" => (pending = {} /\ running = {} /\ idx = chunks)

C28_Witness ==
    /\ "map_summarize_chunks" \in invoked
    /\ Cardinality(running) = 8
    /\ pending # running
    /\ idx = 0

\* C29: a summarizer call that fails still adds the size of its input to the tier's
\* usage counter: the counter counts every attempted call.
C29_FailedCallCounted ==
    pc \in {"pool_run", "pool_returned"} =>
        /\ "map_summarize_chunks" \in invoked => model_usage_chars.light = idx
        /\ "map_escalate_chunks" \in invoked => model_usage_chars.medium = idx

C33_ResultReady ==
    snap.status = "complete" =>
        /\ snap.result.has
        /\ resp.kind = "result" =>
               /\ resp.code = 200
               /\ resp.body.final_summary = final_summary
               /\ resp.body.carbon_data = carbon_report

\* C36: for every run with at least one unit and an escalated count between 0 and the
\* unit count, the report's savings are not negative and its efficiency_percent lies
\* between 0 and 100.
C36_SavingsNonNegative ==
    (pc = "costed" /\ total_chunks >= 1 /\ chunks_escalated \in 0..total_chunks) =>
        /\ carbon_report.carbon_saved_grams >= 0
        /\ carbon_report.efficiency_percent.num >= 0
        /\ carbon_report.efficiency_percent.num <= 100 * carbon_report.efficiency_percent.den

\* C38: every job that reaches a terminal status (complete or error) eventually has its
\* uploaded temporary file removed.
C38_FileRemoved == Terminal ~> ~file_exists

\* C35: whenever ReduceCompile runs, the summaries joined into CompileFinal's input are
\* as many as the units and hold one output of every unit, none dropped or duplicated,
\* whatever number of escalation passes occurred.
C35_OnePerUnit ==
    pc \in {"reduce_p", "reduce_m", "reduce_body"} =>
        /\ Len(summaries) = chunks
        /\ \A c \in 1..chunks :
               Cardinality({i \in 1..Len(summaries) : summaries[i].u = c}) = 1

\* C34: with a checker whose answer depends only on the (unit, summary) pair it is given,
\* a unit accepted on the first AccuracyGate pass is not rejected on a later pass and is
\* never submitted to the medium tier in that run.
C34_AcceptedStays ==
    FirstGateDone =>
        /\ SeqToSet(failed) \cup SeqToSet(failed_chunks) \subseteq firstRejected
        /\ \A c \in 1..chunks : c \notin firstRejected => escalationRounds[c] = 0

\* the sum of the truncated sizes of the units in S
RECURSIVE TruncatedChars(_)
TruncatedChars(S) ==
    IF S = {} THEN 0
    ELSE LET c == CHOOSE x \in S : TRUE
         IN Min(content[c], 1024) + TruncatedChars(S \ {c})

\* C37: after the light-tier map pass the light usage counter equals the sum of the
\* input sizes, truncated to 1024, of the units whose light-tier call succeeded, for
\* every interleaving of the threads' reads and writes of the counter.
C37_NoLostUpdate ==
    (pc = "pool_returned" /\ "map_summarize_chunks" \in invoked) =>
        model_usage_chars.light =
            TruncatedChars({c \in 1..chunks : thread[c].at = "stored"})

\* what a step of the job's own task changes
OwnState ==
    <<pc, steps, err, job_mode, file_exists, runstate, locals, invoked, history, calls,
      JOB_STATUSES[job_id]>>

\* C32: with another job in the registry and running, every step of the job's task
\* leaves the other job's snapshot and its stored document row unchanged: the job
\* writes the JOB_STATUSES entry of its own job_id only.
C32_OwnEntryOnly ==
    [][OwnState' # OwnState =>
           /\ JOB_STATUSES'[other_job] = JOB_STATUSES[other_job]
           /\ Rows(documents', other_job) = Rows(documents, other_job)
           /\ DOMAIN JOB_STATUSES' = DOMAIN JOB_STATUSES]_vars

C32_Witness ==
    /\ pc = "done"
    /\ snap.status = "complete"
    /\ snap.result.final_summary.kind = "compiled"
    /\ JOB_STATUSES[other_job].status = "complete"
    /\ JOB_STATUSES[other_job] # snap
    /\ Rows(documents, job_id) # {}
    /\ Rows(documents, other_job) # {}

====
